---------------------------- MODULE Spec2Model ----------------------------
(***************************************************************************)
(* Model of the astra-cobalt-plugin file server (src/src/lib.rs).          *)
(*                                                                         *)
(* One worker thread accepts TCP connections in a loop; every accepted     *)
(* connection carries one request (operation byte, path line, and for      *)
(* List a glob line) which is answered on the same stream.                 *)
(*                                                                         *)
(* Bytes are integers 0..255, byte strings are sequences of them.          *)
(* The variables req, inbuf, eof, operation, path, glob, wq, writes, fsops  *)
(* and rlog describe the connection of the current loop iteration: they    *)
(* are locals of the loop body and of process_request and are gone when    *)
(* the iteration ends.                                                     *)
(***************************************************************************)
EXTENDS Integers, Sequences, FiniteSets, TLC

VARIABLES
    fs,         \* the filesystem below rom:/Data : relative path -> node
    logger,     \* the Logger: [file |-> BOOLEAN] (Some(file) or None)
    status,     \* connection id -> "none" | "pending" | "active" | "closed"
    backlog,    \* connections waiting in the listener's queue, oldest first
    pc,         \* position of the worker thread
    cur,        \* the connection bound to `connection` (0: none yet)
    req,        \* all the bytes the client sends on `connection`
    inbuf,      \* bytes of `connection` not yet read by the server
    eof,        \* the client shuts its sending side after those bytes
    operation,  \* lib.rs:71
    path,       \* lib.rs:76, the resolved path
    glob,       \* lib.rs:98, the glob line as read
    wq,         \* the write_all calls still to be issued, in order
    err,        \* Debug text of the error the last process_request returned,
                \* <<>> while it has returned none
    writes,     \* the write_all calls issued on `connection`, with outcome
    fsops,      \* filesystem operations performed for `connection`
    rlog,       \* Recorder entries of the current loop iteration
    fileFails,  \* lib.rs:173-174 : writes to the log file return Err
    flog,       \* lines the current loop iteration put into the log file
    walked      \* lib.rs:107 : the directory list_files was called on

vars == <<fs, logger, status, backlog, pc, cur, req, inbuf, eof, operation,
          path, glob, wq, err, writes, fsops, rlog, fileFails, flog, walked>>

-----------------------------------------------------------------------------
(* Bounds of the model *)

\* number of client connections that are ever made
MaxConns == 2

Conns == 1..MaxConns

-----------------------------------------------------------------------------
(* Bytes and byte strings *)

\* '\n', the line terminator of read_line and writeln!
NL == 10
\* '/'
SLASH == 47
\* '\\'
BACKSLASH == 92

\* usize::to_be_bytes on the 64-bit target: 8 bytes, most significant first
RECURSIVE BeDigits(_, _)
BeDigits(n, k) ==
    IF k = 0 THEN <<>> ELSE BeDigits(n \div 256, k - 1) \o <<n % 256>>

\* faulty variant: the length as a 4-byte word (usize of a 32-bit target)
ToBeBytes32(n) == BeDigits(n, 4)

ToBeBytes(n) == BeDigits(n, 8)

\* the client-side reading of an 8-byte big-endian integer
FromBeBytes(b) ==
    LET RECURSIVE Acc(_)
        Acc(k) == IF k = 0 THEN 0 ELSE Acc(k - 1) * 256 + b[k]
    IN Acc(8)

\* decimal digits of a u8, as format!("{}", operation) prints it
Decimal(n) ==
    LET RECURSIVE Dig(_)
        Dig(k) == IF k < 10 THEN <<48 + k>> ELSE Dig(k \div 10) \o <<48 + (k % 10)>>
    IN Dig(n)

\* index of the first occurrence of byte b in s, 0 when there is none
IndexOf(s, b) ==
    IF \E i \in 1..Len(s) : s[i] = b
    THEN CHOOSE i \in 1..Len(s) : s[i] = b /\ \A j \in 1..(i - 1) : s[j] # b
    ELSE 0

\* concatenation of a sequence of byte strings
RECURSIVE Flatten(_)
Flatten(ss) == IF ss = <<>> THEN <<>> ELSE Head(ss) \o Flatten(Tail(ss))

\* str::trim : strips leading and trailing white space (ASCII part of
\* Unicode White_Space: TAB, LF, VT, FF, CR, SPACE)
IsWhitespace(b) == b \in {9, 10, 11, 12, 13, 32}

RECURSIVE TrimStart(_)
TrimStart(s) ==
    IF s # <<>> /\ IsWhitespace(Head(s)) THEN TrimStart(Tail(s)) ELSE s

RECURSIVE TrimEnd(_)
TrimEnd(s) ==
    IF s # <<>> /\ IsWhitespace(s[Len(s)])
    THEN TrimEnd(SubSeq(s, 1, Len(s) - 1))
    ELSE s

\* faulty variant: only the line terminator is removed
TrimNewline(s) ==
    IF s # <<>> /\ s[Len(s)] = NL THEN SubSeq(s, 1, Len(s) - 1) ELSE s

\* str::trim, lib.rs:76
Trim(s) == TrimEnd(TrimStart(s))

\* str::replace('\\', "/")
ReplaceBackslash(s) ==
    [i \in 1..Len(s) |-> IF s[i] = BACKSLASH THEN SLASH ELSE s[i]]

\* String::from_utf8 as read_line applies it.  The byte strings of the model
\* are ASCII except for the byte 0xFF, which no UTF-8 text contains.
ValidUtf8(s) == \A i \in 1..Len(s) : s[i] < 128

\* "rom:/Data/"
RootPrefix == <<114, 111, 109, 58, 47, 68, 97, 116, 97, 47>>

\* format!("rom:/Data/{}", path.trim().replace('\\', "/"))
ResolvePath(line) == RootPrefix \o ReplaceBackslash(Trim(line))

-----------------------------------------------------------------------------
(* Paths and the filesystem *)

\* Path::iter : the components of a path, split at '/', empty ones dropped
RECURSIVE Components(_)
Components(p) ==
    IF p = <<>> THEN <<>>
    ELSE LET k == IndexOf(p, SLASH) IN
         IF k = 0 THEN <<p>>
         ELSE IF k = 1 THEN Components(Tail(p))
         ELSE <<SubSeq(p, 1, k - 1)>> \o Components(SubSeq(p, k + 1, Len(p)))

\* collect::<PathBuf>() followed by display() : components joined by '/'
RECURSIVE JoinComponents(_)
JoinComponents(cs) ==
    IF cs = <<>> THEN <<>>
    ELSE IF Len(cs) = 1 THEN Head(cs)
    ELSE Head(cs) \o <<SLASH>> \o JoinComponents(Tail(cs))

\* entry.path() = dir.join(file_name)
JoinPath(dir, name) ==
    IF dir # <<>> /\ dir[Len(dir)] = SLASH THEN dir \o name
    ELSE dir \o <<SLASH>> \o name

\* number of leading components list_files removes
SkipSegments == 2

\* faulty variant: the entry is the file name alone
EntryFileName(p) ==
    LET cs == Components(p) IN
    IF cs = <<>> THEN <<>> ELSE cs[Len(cs)]

\* path.iter().skip(2).collect()
EntryRelativeToRoot(p) ==
    LET cs == Components(p) IN
    JoinComponents(SubSeq(cs, SkipSegments + 1, Len(cs)))

\* The key of a path in fs: its components below rom:/Data
FsKey(p) ==
    LET cs == Components(p) IN SubSeq(cs, 3, Len(cs))

\* Path::exists
PathExists(p) == FsKey(p) \in DOMAIN fs

\* Path::is_dir
IsDir(p) == PathExists(p) /\ fs[FsKey(p)].kind = "dir"

\* the names std::fs::read_dir yields for a directory
ChildNames(p) ==
    LET k == FsKey(p) IN
    {q[Len(q)] : q \in {r \in DOMAIN fs : Len(r) = Len(k) + 1
                                          /\ SubSeq(r, 1, Len(k)) = k}}

\* io::Error texts (Debug of the anyhow::Error wrapping them)
\* "No such file or directory (os error 2)"
MsgNotFound ==
    <<78,111,32,115,117,99,104,32,102,105,108,101,32,111,114,32,100,105,114,
      101,99,116,111,114,121,32,40,111,115,32,101,114,114,111,114,32,50,41>>
\* "Is a directory (os error 21)"
MsgIsDir ==
    <<73,115,32,97,32,100,105,114,101,99,116,111,114,121,32,40,111,115,32,
      101,114,114,111,114,32,50,49,41>>
\* "Permission denied (os error 13)"
MsgDenied ==
    <<80,101,114,109,105,115,115,105,111,110,32,100,101,110,105,101,100,32,
      40,111,115,32,101,114,114,111,114,32,49,51,41>>
\* "failed to fill whole buffer"
MsgEof ==
    <<102,97,105,108,101,100,32,116,111,32,102,105,108,108,32,119,104,111,
      108,101,32,98,117,102,102,101,114>>
\* "stream did not contain valid UTF-8"
MsgUtf8 ==
    <<115,116,114,101,97,109,32,100,105,100,32,110,111,116,32,99,111,110,
      116,97,105,110,32,118,97,108,105,100,32,85,84,70,45,56>>
\* "Broken pipe (os error 32)"
MsgPipe ==
    <<66,114,111,107,101,110,32,112,105,112,101,32,40,111,115,32,101,114,
      114,111,114,32,51,50,41>>
\* "Unknown operation "
MsgUnknownPrefix ==
    <<85,110,107,110,111,119,110,32,111,112,101,114,97,116,105,111,110,32>>

\* bail!("Unknown operation {}", operation)
MsgUnknown(op) == MsgUnknownPrefix \o Decimal(op)

\* std::fs::read(&path) : [ok, data] or [ok, msg]
FsRead(p) ==
    IF ~PathExists(p) THEN [ok |-> FALSE, msg |-> MsgNotFound]
    ELSE LET n == fs[FsKey(p)] IN
         IF n.kind = "dir" THEN [ok |-> FALSE, msg |-> MsgIsDir]
         ELSE IF ~n.readable THEN [ok |-> FALSE, msg |-> MsgDenied]
         ELSE [ok |-> TRUE, data |-> n.data]

\* faulty variant of list_files: subdirectories are not descended into
list_files_flat(dir) ==
    IF ~IsDir(dir) THEN [ok |-> TRUE, out |-> {}]
    ELSE IF ~fs[FsKey(dir)].readable THEN [ok |-> FALSE, out |-> {}]
    ELSE [ok  |-> TRUE,
          out |-> {EntryRelativeToRoot(JoinPath(dir, n)) :
                      n \in {m \in ChildNames(dir) : ~IsDir(JoinPath(dir, m))}}]

\* list_files(dir, output): [ok, out] where out is the set inserted into
\* `output`; ok is FALSE when a read_dir on the way failed
RECURSIVE list_files(_)
list_files(dir) ==
    IF ~IsDir(dir) THEN [ok |-> TRUE, out |-> {}]
    ELSE IF ~fs[FsKey(dir)].readable THEN [ok |-> FALSE, out |-> {}]
    ELSE LET sub == [n \in ChildNames(dir) |->
                        IF IsDir(JoinPath(dir, n))
                        THEN list_files(JoinPath(dir, n))
                        ELSE [ok |-> TRUE,
                              out |-> {EntryRelativeToRoot(JoinPath(dir, n))}]]
         IN [ok  |-> \A n \in ChildNames(dir) : sub[n].ok,
             out |-> UNION {sub[n].out : n \in ChildNames(dir)}]

\* faulty variant: a read that gives up waiting and returns what has arrived
ReadLineTimesOut(buf, closed) ==
    LET k == IndexOf(buf, NL) IN
    IF k > 0 THEN [ready |-> TRUE, line |-> SubSeq(buf, 1, k),
                   rest |-> SubSeq(buf, k + 1, Len(buf))]
    ELSE [ready |-> TRUE, line |-> buf, rest |-> <<>>]

\* BufRead::read_line on the unread bytes: blocks until a newline or the end
\* of the stream; [ready, line, rest]
ReadLine(buf, closed) ==
    LET k == IndexOf(buf, NL) IN
    IF k > 0 THEN [ready |-> TRUE, line |-> SubSeq(buf, 1, k),
                   rest |-> SubSeq(buf, k + 1, Len(buf))]
    ELSE IF closed THEN [ready |-> TRUE, line |-> buf, rest |-> <<>>]
    ELSE [ready |-> FALSE, line |-> <<>>, rest |-> buf]

-----------------------------------------------------------------------------
(* Wire format of the responses: the write_all calls, in order *)

\* faulty variant: is_file in place of exists
ExistsResponseIsFile(p) ==
    << <<IF PathExists(p) /\ fs[FsKey(p)].kind = "file" THEN 1 ELSE 0>> >>

\* lib.rs:84
ExistsResponse(p) == << <<IF PathExists(p) THEN 1 ELSE 0>> >>

\* lib.rs:92-94
ReadResponse(buffer) == << <<0>>, ToBeBytes(Len(buffer)), buffer >>

\* lib.rs:114 : writeln! issues one write for the path and one for '\n'
RECURSIVE ListLines(_)
ListLines(order) ==
    IF order = <<>> THEN <<>>
    ELSE <<Head(order), <<NL>>>> \o ListLines(Tail(order))

\* lib.rs:111-115
ListResponse(order) == << <<0>>, ToBeBytes(Len(order)) >> \o ListLines(order)

\* faulty variant: the length counts a terminator that is not sent
ErrorResponseLenPlusOne(message) ==
    << <<1>>, ToBeBytes(Len(message) + 1), message >>

\* write_error_to_stream
ErrorResponse(message) == << <<1>>, ToBeBytes(Len(message)), message >>

\* the orders in which a HashSet may be iterated
Orderings(S) ==
    {o \in [1..Cardinality(S) -> S] :
        \A i, j \in 1..Cardinality(S) : o[i] = o[j] => i = j}

-----------------------------------------------------------------------------
(* The inputs: filesystem trees and request byte streams *)

Dir(r) == [kind |-> "dir", data |-> <<>>, readable |-> r]
File(d, r) == [kind |-> "file", data |-> d, readable |-> r]

\* names "a", "b", "d"
NameA == <<97>>
NameB == <<98>>
NameD == <<100>>

\* rom:/Data with nothing in it
TreeEmpty == (<<>> :> Dir(TRUE))

\* a ("hi"), b (unreadable), d/a (empty), d/d/a
TreeFiles(deepReadable) ==
    (<<>> :> Dir(TRUE))
    @@ (<<NameA>> :> File(<<104, 105>>, TRUE))
    @@ (<<NameB>> :> File(<<7>>, FALSE))
    @@ (<<NameD>> :> Dir(TRUE))
    @@ (<<NameD, NameA>> :> File(<<>>, TRUE))
    @@ (<<NameD, NameD>> :> Dir(deepReadable))
    @@ (<<NameD, NameD, NameA>> :> File(<<9>>, TRUE))

FsTrees == {TreeEmpty, TreeFiles(TRUE), TreeFiles(FALSE)}

\* operation bytes a client sends: Exists, Read, List and an unknown one
OpBytes == {0, 1, 2, 3}

\* path texts: "", "a", "b", "d", "d/a", "d\a", "a\r", "x", and a byte
\* that is not UTF-8
PathTexts ==
    { <<>>, <<97>>, <<98>>, <<100>>, <<100, 47, 97>>, <<100, 92, 97>>,
      <<97, 13>>, <<120>>, <<255>> }

\* what follows the path line of a List: nothing, "*\n", "*", or a line
\* that is not UTF-8
GlobParts == { <<>>, <<42, 10>>, <<42>>, <<255, 10>> }

\* complete requests: Exists "a", Read "x", List "d" with glob "*", and
\* operation 3 on "a"
FirstRequests ==
    { <<0, 97, 10>>, <<1, 120, 10>>, <<2, 100, 10, 42, 10>>, <<3, 97, 10>> }

\* a client that sends a second request, Read "a", right behind the first
Pipelined == { f \o <<1, 97, 10>> : f \in FirstRequests }

\* the byte streams a client sends on a connection
Requests ==
    { <<>> }
    \cup { <<op>> \o t : op \in OpBytes, t \in PathTexts }
    \cup { <<op>> \o t \o <<NL>> : op \in OpBytes \ {2}, t \in PathTexts }
    \cup { <<2>> \o t \o <<NL>> \o g : t \in PathTexts, g \in GlobParts }
    \cup Pipelined

-----------------------------------------------------------------------------
(* The Logger *)

\* lib.rs:171-175 : what Logger::log puts into the log file.  Without a file
\* nothing is written; the results of writeln! and flush are discarded, so
\* a failing write leaves nothing in the file and is not reported.
FileLines(entries) == IF logger.file /\ ~fileFails THEN entries ELSE <<>>

\* faulty variant: the console line is printed only when there is a file
LogOnlyWithFile(entries) ==
    /\ rlog' = IF logger.file THEN rlog \o entries ELSE rlog
    /\ flog' = flog \o FileLines(entries)

\* Logger::log, lib.rs:169-176 : one line on the console (the Recorder
\* entry), then the same line into the log file
Log(entries) ==
    /\ rlog' = rlog \o entries
    /\ flog' = flog \o FileLines(entries)

-----------------------------------------------------------------------------
(* The worker thread *)

Init ==
    /\ fs \in FsTrees
    /\ logger \in [file : BOOLEAN]
    /\ status = [c \in Conns |-> "none"]
    /\ backlog = <<>>
    /\ pc \in {"accept", "panicked"}    \* TcpListener::bind(..).unwrap()
    /\ cur = 0
    /\ req = <<>>
    /\ inbuf = <<>>
    /\ eof = FALSE
    /\ operation = 0
    /\ path = <<>>
    /\ glob = <<>>
    /\ wq = <<>>
    /\ err = <<>>
    /\ writes = <<>>
    /\ fsops = <<>>
    /\ rlog = IF pc = "accept" THEN <<"started">> ELSE <<>>
    /\ fileFails \in IF logger.file THEN BOOLEAN ELSE {FALSE}
    /\ flog = FileLines(rlog)
    /\ walked = <<>>

\* a client connects; the connection waits in the listener's queue
Connect(c) ==
    /\ pc # "panicked"
    /\ status[c] = "none"
    /\ \A d \in Conns : d < c => status[d] # "none"
    /\ status' = [status EXCEPT ![c] = "pending"]
    /\ backlog' = Append(backlog, c)
    /\ UNCHANGED <<fs, logger, fileFails, pc, cur, req, inbuf, eof, operation,
                   path, glob, wq, err, writes, fsops, walked, rlog, flog>>

\* faulty variant: connections are taken while one is being served
CanAcceptWhileServing == pc # "panicked"

\* the worker may take the next connection: it is at server.incoming()
CanAccept == pc = "accept"

\* lib.rs:43-47 and 64-67 : incoming() yields Ok(connection), and
\* process_request starts on it.  req and e are what the client will send.
Accept ==
    /\ CanAccept
    /\ backlog # <<>>
    /\ \E r \in Requests, e \in BOOLEAN :
        /\ req' = r
        /\ inbuf' = r
        /\ eof' = e
    /\ cur' = Head(backlog)
    /\ backlog' = Tail(backlog)
    /\ status' = [status EXCEPT ![Head(backlog)] = "active"]
    /\ pc' = "read_op"
    /\ err' = <<>>
    /\ rlog' = <<"incoming", "handling">>
    /\ flog' = FileLines(rlog')
    /\ UNCHANGED <<fs, logger, fileFails, operation, path, glob, wq, writes,
                   fsops, walked>>

\* faulty variant: an error of incoming() ends the loop
AcceptErrorEndsLoop ==
    /\ pc = "accept"
    /\ pc' = "panicked"
    /\ rlog' = <<"incoming", "error">>
    /\ flog' = FileLines(rlog')
    /\ UNCHANGED <<fs, logger, fileFails, status, backlog, cur, req,
                   inbuf, eof, operation, path, glob, wq, err, writes, fsops,
                   walked>>

\* lib.rs:44 and 55 : incoming() yields Err
AcceptError ==
    /\ pc = "accept"
    /\ rlog' = <<"incoming", "error">>
    /\ flog' = FileLines(rlog')
    /\ UNCHANGED <<fs, logger, fileFails, status, backlog, pc, cur, req,
                   inbuf, eof, operation, path, glob, wq, err, writes, fsops,
                   walked>>

\* process_request returns Err(message)
Fail(message) ==
    /\ err' = message
    /\ pc' = "failed"

\* lib.rs:69-71 : read_exact of the operation byte; blocks while the client
\* has sent nothing and has not closed
ReadOp ==
    /\ pc = "read_op"
    /\ inbuf # <<>> \/ eof
    /\ IF inbuf # <<>>
       THEN /\ operation' = Head(inbuf)
            /\ inbuf' = Tail(inbuf)
            /\ pc' = "read_path"
            /\ err' = err
       ELSE /\ Fail(MsgEof)
            /\ UNCHANGED <<operation, inbuf>>
    /\ UNCHANGED <<fs, logger, fileFails, status, backlog, cur, req, eof,
                   path, glob, wq, writes, fsops, walked, rlog, flog>>

\* lib.rs:73-81 : read_line of the path, the resolved path, the log entry
ReadPath ==
    /\ pc = "read_path"
    /\ LET r == ReadLine(inbuf, eof) IN
        /\ r.ready
        /\ inbuf' = r.rest
        /\ IF ValidUtf8(r.line)
           THEN /\ path' = ResolvePath(r.line)
                /\ Log(<<"received">>)
                /\ pc' = "dispatch"
                /\ err' = err
           ELSE /\ Fail(MsgUtf8)
                /\ UNCHANGED <<path, rlog, flog>>
    /\ UNCHANGED <<fs, logger, fileFails, status, backlog, cur, req, eof,
                   operation, glob, wq, writes, fsops, walked>>

\* lib.rs:84 : operation 0, Exists
DoExists ==
    /\ pc = "dispatch"
    /\ operation = 0
    /\ fsops' = Append(fsops, "exists")
    /\ wq' = ExistsResponse(path)
    /\ pc' = "write"
    /\ UNCHANGED <<fs, logger, fileFails, status, backlog, cur, req, inbuf,
                   eof, operation, path, glob, err, writes, walked, rlog,
                   flog>>

\* faulty variant: the status byte is written before the file is read
DoReadStatusFirst ==
    /\ pc = "dispatch"
    /\ operation = 1
    /\ fsops' = Append(fsops, "read")
    /\ writes' = Append(writes, [by |-> "process_request", data |-> <<0>>,
                                 ok |-> TRUE])
    /\ LET r == FsRead(path) IN
        IF r.ok
        THEN /\ Log(<<"got_file">>)
             /\ wq' = Tail(ReadResponse(r.data))
             /\ pc' = "write"
             /\ err' = err
        ELSE /\ Fail(r.msg)
             /\ UNCHANGED <<wq, rlog, flog>>
    /\ UNCHANGED <<fs, logger, fileFails, status, backlog, cur, req, inbuf,
                   eof, operation, path, glob, walked>>

\* lib.rs:85-95 : operation 1, Read
DoRead ==
    /\ pc = "dispatch"
    /\ operation = 1
    /\ fsops' = Append(fsops, "read")
    /\ LET r == FsRead(path) IN
        IF r.ok
        THEN /\ Log(<<"got_file">>)
             /\ wq' = ReadResponse(r.data)
             /\ pc' = "write"
             /\ err' = err
        ELSE /\ Fail(r.msg)
             /\ UNCHANGED <<wq, rlog, flog>>
    /\ UNCHANGED <<fs, logger, fileFails, status, backlog, cur, req, inbuf,
                   eof, operation, path, glob, writes, walked>>

\* faulty variant: the walk starts at the path joined with the glob line
WalkRootIsGlob(p, g) == g

\* lib.rs:107 : the directory handed to list_files, given the resolved path
\* p and the joined glob g of line 99
WalkRoot(p, g) == p

\* lib.rs:96-116 : operation 2, List; read_line of the glob blocks like the
\* one of the path
DoList ==
    /\ pc = "dispatch"
    /\ operation = 2
    /\ LET r == ReadLine(inbuf, eof) IN
        /\ r.ready
        /\ inbuf' = r.rest
        /\ IF ~ValidUtf8(r.line)
           THEN /\ Fail(MsgUtf8)
                /\ UNCHANGED <<glob, wq, fsops, walked, rlog, flog>>
           ELSE /\ glob' = path \o <<SLASH>> \o r.line
                /\ fsops' = Append(fsops, "list")
                /\ walked' = WalkRoot(path, glob')
                /\ LET paths == list_files(walked') IN
                    IF paths.ok
                    THEN /\ Log(<<"ignoring_glob", "listed">>)
                         /\ \E order \in Orderings(paths.out) :
                                wq' = ListResponse(order)
                         /\ pc' = "write"
                         /\ err' = err
                    ELSE /\ Log(<<"ignoring_glob">>)
                         /\ Fail(MsgDenied)
                         /\ wq' = wq
    /\ UNCHANGED <<fs, logger, fileFails, status, backlog, cur, req, eof,
                   operation, path, writes>>

\* faulty variant: the catch-all arm answers like Exists
DoUnknownAsExists ==
    /\ pc = "dispatch"
    /\ operation \notin {0, 1, 2}
    /\ fsops' = Append(fsops, "exists")
    /\ wq' = ExistsResponse(path)
    /\ pc' = "write"
    /\ UNCHANGED <<fs, logger, fileFails, status, backlog, cur, req, inbuf,
                   eof, operation, path, glob, err, writes, walked, rlog,
                   flog>>

\* lib.rs:117 : any other operation
DoUnknown ==
    /\ pc = "dispatch"
    /\ operation \notin {0, 1, 2}
    /\ Fail(MsgUnknown(operation))
    /\ UNCHANGED <<fs, logger, fileFails, status, backlog, cur, req, inbuf,
                   eof, operation, path, glob, wq, writes, fsops, walked,
                   rlog, flog>>

\* one write_all of process_request succeeds
WriteOk ==
    /\ pc = "write"
    /\ wq # <<>>
    /\ writes' = Append(writes, [by |-> "process_request", data |-> Head(wq),
                                 ok |-> TRUE])
    /\ wq' = Tail(wq)
    /\ UNCHANGED <<fs, logger, fileFails, status, backlog, pc, cur, req,
                   inbuf, eof, operation, path, glob, err, fsops, walked,
                   rlog, flog>>

\* one write_all of process_request fails: `?` returns the error
WriteFails ==
    /\ pc = "write"
    /\ wq # <<>>
    /\ Head(wq) # <<>>
    /\ writes' = Append(writes, [by |-> "process_request", data |-> Head(wq),
                                 ok |-> FALSE])
    /\ wq' = <<>>
    /\ Fail(MsgPipe)
    /\ UNCHANGED <<fs, logger, fileFails, status, backlog, cur, req, inbuf,
                   eof, operation, path, glob, fsops, walked, rlog, flog>>

\* lib.rs:120-121 and 48 : everything is written, process_request returns Ok
ReturnOk ==
    /\ pc = "write"
    /\ wq = <<>>
    /\ Log(<<"success">>)
    /\ pc' = "drop"
    /\ UNCHANGED <<fs, logger, fileFails, status, backlog, cur, req, inbuf,
                   eof, operation, path, glob, wq, err, writes, fsops, walked>>

\* faulty variant: the result of process_request is unwrapped, the panic
\* ends the worker thread
HandleErrorUnwrap ==
    /\ pc = "failed"
    /\ pc' = "panicked"
    /\ UNCHANGED <<fs, logger, fileFails, status, backlog, cur, req, inbuf,
                   eof, operation, path, glob, wq, err, writes, fsops, walked,
                   rlog, flog>>

\* lib.rs:49-51 and 128 : the Err arm logs the error and formats the message
HandleError ==
    /\ pc = "failed"
    /\ Log(<<"error">>)
    /\ wq' = ErrorResponse(err)
    /\ pc' = "write_error"
    /\ UNCHANGED <<fs, logger, fileFails, status, backlog, cur, req, inbuf,
                   eof, operation, path, glob, err, writes, fsops, walked>>

\* lib.rs:129-131 : one write_all of write_error_to_stream succeeds
WriteErrorOk ==
    /\ pc = "write_error"
    /\ wq # <<>>
    /\ writes' = Append(writes, [by |-> "write_error_to_stream",
                                 data |-> Head(wq), ok |-> TRUE])
    /\ wq' = Tail(wq)
    /\ UNCHANGED <<fs, logger, fileFails, status, backlog, pc, cur, req,
                   inbuf, eof, operation, path, glob, err, fsops, walked,
                   rlog, flog>>

\* lib.rs:129-131 : one write_all of write_error_to_stream fails; the result
\* is discarded and the next write is issued
WriteErrorFails ==
    /\ pc = "write_error"
    /\ wq # <<>>
    /\ writes' = Append(writes, [by |-> "write_error_to_stream",
                                 data |-> Head(wq), ok |-> FALSE])
    /\ wq' = Tail(wq)
    /\ UNCHANGED <<fs, logger, fileFails, status, backlog, pc, cur, req,
                   inbuf, eof, operation, path, glob, err, fsops, walked,
                   rlog, flog>>

\* lib.rs:52 : flush, result discarded
Flush ==
    /\ pc = "write_error"
    /\ wq = <<>>
    /\ pc' = "drop"
    /\ UNCHANGED <<fs, logger, fileFails, status, backlog, cur, req, inbuf,
                   eof, operation, path, glob, wq, err, writes, fsops, walked,
                   rlog, flog>>

\* faulty variant: unread bytes are taken as the next request of the same
\* connection
DropKeepAlive ==
    /\ pc = "drop"
    /\ IF inbuf # <<>>
       THEN /\ pc' = "read_op"
            /\ UNCHANGED <<status, req, inbuf, eof, operation, path, glob, wq,
                           writes, fsops, walked, rlog, flog>>
       ELSE /\ status' = [status EXCEPT ![cur] = "closed"]
            /\ pc' = "accept"
            /\ req' = <<>>
            /\ inbuf' = <<>>
            /\ eof' = FALSE
            /\ operation' = 0
            /\ path' = <<>>
            /\ glob' = <<>>
            /\ wq' = <<>>
            /\ writes' = <<>>
            /\ fsops' = <<>>
            /\ walked' = <<>>
            /\ rlog' = <<>>
            /\ flog' = <<>>
    /\ UNCHANGED <<fs, logger, fileFails, backlog, cur, err>>

\* lib.rs:54-57 : `connection` goes out of scope, which closes it, the locals
\* of the iteration are gone, and the loop asks incoming() for the next one
Drop ==
    /\ pc = "drop"
    /\ status' = [status EXCEPT ![cur] = "closed"]
    /\ pc' = "accept"
    /\ req' = <<>>
    /\ inbuf' = <<>>
    /\ eof' = FALSE
    /\ operation' = 0
    /\ path' = <<>>
    /\ glob' = <<>>
    /\ wq' = <<>>
    /\ writes' = <<>>
    /\ fsops' = <<>>
    /\ walked' = <<>>
    /\ rlog' = <<>>
    /\ flog' = <<>>
    /\ UNCHANGED <<fs, logger, fileFails, backlog, cur, err>>

Next ==
    \/ \E c \in Conns : Connect(c)
    \/ Accept
    \/ AcceptError
    \/ ReadOp
    \/ ReadPath
    \/ DoExists
    \/ DoRead
    \/ DoList
    \/ DoUnknown
    \/ WriteOk
    \/ WriteFails
    \/ ReturnOk
    \/ HandleError
    \/ WriteErrorOk
    \/ WriteErrorFails
    \/ Flush
    \/ Drop

Spec == Init /\ [][Next]_vars

\* the bytes the client has received on `connection`.  A write_all that
\* failed counts as having delivered nothing.
Delivered == SelectSeq(writes, LAMBDA w : w.ok)
Wire == Flatten([i \in 1..Len(Delivered) |-> Delivered[i].data])

\* the steps of the Err arm of main and the end of the iteration: none of them
\* waits for the client
ErrorArm == HandleError \/ WriteErrorOk \/ WriteErrorFails \/ Flush \/ Drop

\* the fairness the worker thread has: it keeps running, so the Err arm is
\* carried through, and a blocked accept returns once a connection is queued
FairSpec == Spec /\ WF_vars(ErrorArm) /\ WF_vars(Accept)

-----------------------------------------------------------------------------
(* What a client sees, used to state the properties *)

NoWriteFailed == \A i \in 1..Len(writes) : writes[i].ok

WritesBy(who) == {i \in 1..Len(writes) : writes[i].by = who}

\* the lines of a byte string, without their '\n'; a last piece that has no
\* '\n' is returned too
RECURSIVE LinesOf(_)
LinesOf(b) ==
    IF b = <<>> THEN <<>>
    ELSE LET k == IndexOf(b, NL) IN
         IF k = 0 THEN <<b>>
         ELSE <<SubSeq(b, 1, k - 1)>> \o LinesOf(SubSeq(b, k + 1, Len(b)))

Terminated(b) == b = <<>> \/ b[Len(b)] = NL

\* a client reading [status][8-byte big-endian n][rest]
Framed == Len(Wire) >= 9
FrameStatus == Wire[1]
FrameCount == FromBeBytes(SubSeq(Wire, 2, 9))
FrameBody == SubSeq(Wire, 10, Len(Wire))

\* the request on `connection` has an operation byte and a complete,
\* newline-terminated path line
CompletePathLine == Len(req) >= 1 /\ IndexOf(Tail(req), NL) > 0

PathLine == SubSeq(Tail(req), 1, IndexOf(Tail(req), NL))

IsPrefixOf(k, q) == Len(k) <= Len(q) /\ SubSeq(q, 1, Len(k)) = k

\* the regular files beneath the entry with key k, as paths below rom:/Data
FilesBeneath(k) ==
    {JoinComponents(q) : q \in {r \in DOMAIN fs : /\ fs[r].kind = "file"
                                                  /\ IsPrefixOf(k, r)
                                                  /\ Len(r) > Len(k)}}

\* every directory at or beneath key k can be read
WalkHasNoIoError(k) ==
    \A q \in DOMAIN fs : (IsPrefixOf(k, q) /\ fs[q].kind = "dir") => fs[q].readable

-----------------------------------------------------------------------------
(* C1..C10 *)

\* C1: when a connection is about to be closed the server has written exactly
\* one response on it, whatever the outcome of decoding, dispatching and of each
\* write: some frame was written (never zero), no delivered byte of a success
\* response is followed by a delivered byte of an error frame, and a request
\* that failed in parsing is answered by the error frame alone.
C1_ExactlyOneResponse ==
    /\ ~(\E i, j \in 1..Len(writes) :
            /\ i < j
            /\ writes[i].by = "process_request" /\ writes[i].ok
            /\ writes[j].by = "write_error_to_stream" /\ writes[j].ok)
    /\ pc = "drop" => writes # <<>>
    /\ (pc = "drop" /\ err # <<>> /\ fsops = <<>>)
          => WritesBy("process_request") = {}

\* C2: every response starts with a status byte, 0 on success and 1 on error;
\* a successful Exists is answered by two bytes, status 0 and the flag.
C2_StatusByteFirst ==
    (pc = "drop" /\ NoWriteFailed) =>
        /\ Wire # <<>>
        /\ err = <<>> => Wire[1] = 0
        /\ err # <<>> => Wire[1] = 1
        /\ (err = <<>> /\ operation = 0) =>
              /\ Len(Wire) = 2
              /\ Wire[2] = (IF FsKey(path) \in DOMAIN fs THEN 1 ELSE 0)

\* C3: a Read of a file that exists at the resolved path and is readable is
\* answered by [0][8-byte big-endian length][bytes], the bytes being the
\* file's contents and the length their number.
C3_ReadReturnsFile ==
    (/\ pc = "drop"
     /\ operation = 1
     /\ fsops = <<"read">>
     /\ FsKey(path) \in DOMAIN fs
     /\ fs[FsKey(path)].kind = "file"
     /\ fs[FsKey(path)].readable
     /\ NoWriteFailed)
    => /\ Framed
       /\ FrameStatus = 0
       /\ FrameCount = Len(FrameBody)
       /\ FrameBody = fs[FsKey(path)].data
       /\ err = <<>>

C3_Witness ==
    /\ pc = "drop"
    /\ operation = 1
    /\ fsops = <<"read">>
    /\ NoWriteFailed
    /\ Wire = <<0, 0, 0, 0, 0, 0, 0, 0, 2, 104, 105>>

\* C4: a List whose walk meets no I/O error is answered by a success response
\* whose lines are exactly the regular files beneath the resolved directory,
\* at any depth, each once and no directory among them; when the resolved
\* path does not exist or is no directory the response is a success with
\* count 0.
C4_ListReturnsFiles ==
    (/\ pc = "drop"
     /\ operation = 2
     /\ fsops = <<"list">>
     /\ WalkHasNoIoError(FsKey(path))
     /\ NoWriteFailed)
    => /\ err = <<>>
       /\ Framed
       /\ FrameStatus = 0
       /\ Terminated(FrameBody)
       /\ LET lines == LinesOf(FrameBody) IN
            /\ Len(lines) = FrameCount
            /\ {lines[i] : i \in 1..Len(lines)} = FilesBeneath(FsKey(path))
            /\ FrameCount = Cardinality(FilesBeneath(FsKey(path)))
       /\ (FsKey(path) \notin DOMAIN fs \/ fs[FsKey(path)].kind # "dir")
             => FrameCount = 0

\* a listing of rom:/Data itself with files at depth 1, 2 and 3
C4_Witness ==
    /\ pc = "drop"
    /\ operation = 2
    /\ fsops = <<"list">>
    /\ NoWriteFailed
    /\ err = <<>>
    /\ FsKey(path) = <<>>
    /\ Framed
    /\ FrameCount = 4

\* C5: a request with an operation byte outside {0,1,2} and a complete path
\* line is answered by an error response, status 1, the length, a non-empty
\* message, and no byte of a success response is written.
C5_UnknownOperationIsError ==
    (/\ pc = "drop"
     /\ CompletePathLine
     /\ req[1] \notin {0, 1, 2})
    => /\ err # <<>>
       /\ WritesBy("process_request") = {}
       /\ [i \in 1..Len(writes) |-> writes[i].data]
             = << <<1>>, ToBeBytes(Len(err)), err >>
       /\ NoWriteFailed =>
             /\ Framed
             /\ FrameStatus = 1
             /\ FrameCount = Len(FrameBody)
             /\ FrameCount > 0

\* "Unknown operation 3" has been sent
C5_Witness ==
    /\ pc = "drop"
    /\ CompletePathLine
    /\ req[1] = 3
    /\ ValidUtf8(PathLine)
    /\ NoWriteFailed
    /\ Framed
    /\ FrameCount = 19

\* C6: when the client sends a valid operation byte and closes before a
\* newline-terminated path line, decoding fails: the answer is an error
\* response and no Exists, Read or List is performed on the filesystem.
C6_TruncatedPathIsError ==
    (/\ pc = "drop"
     /\ Len(req) >= 1
     /\ req[1] \in {0, 1, 2}
     /\ IndexOf(Tail(req), NL) = 0
     /\ eof)
    => /\ fsops = <<>>
       /\ err # <<>>
       /\ WritesBy("process_request") = {}

\* C7: a connection whose request fails does not end the worker: the worker
\* never terminates once started, it comes back to the accept loop, and the
\* connection that is next in the queue is accepted.
C7_ServesAfterFailure ==
    /\ [][pc # "panicked" => pc' # "panicked"]_vars
    /\ (pc = "failed") ~> (pc = "accept")
    /\ \A c \in Conns :
          (pc = "failed" /\ backlog # <<>> /\ Head(backlog) = c)
             ~> (status[c] = "active")

\* back in the accept loop after a failed request, the next client waiting
C7_Witness ==
    /\ pc = "accept"
    /\ err # <<>>
    /\ cur # 0
    /\ status[cur] = "closed"
    /\ backlog # <<>>

\* C8: connections are served one at a time: at most one connection is
\* between accepted and closed, it is the one the worker is working on, every
\* other connection is waiting or closed, and only its stream is written.
C8_Sequential ==
    LET active == {c \in Conns : status[c] = "active"} IN
    /\ Cardinality(active) <= 1
    /\ pc \in {"accept", "panicked"} => active = {}
    /\ pc \notin {"accept", "panicked"} => active = {cur}
    /\ (writes # <<>> \/ wq # <<>>) => active = {cur}

\* the second connection is being answered after the first was closed
C8_Witness ==
    /\ MaxConns >= 2
    /\ status[1] = "closed"
    /\ status[2] = "active"
    /\ cur = 2
    /\ Wire # <<>>

\* C9: the error response is [1][8-byte big-endian length][message], the
\* length being the number of message bytes, so that a client reading the
\* length and then that many bytes has the message and nothing is left over;
\* the count of a List response is the number of newline-terminated lines
\* after it.
C9_LengthPrefixExact ==
    /\ (pc = "drop" /\ err # <<>> /\ NoWriteFailed) =>
          /\ Framed
          /\ FrameStatus = 1
          /\ FrameCount <= Len(FrameBody)
          /\ SubSeq(FrameBody, 1, FrameCount) = err
          /\ SubSeq(FrameBody, FrameCount + 1, Len(FrameBody)) = <<>>
    /\ (pc = "drop" /\ err = <<>> /\ operation = 2 /\ NoWriteFailed) =>
          /\ Framed
          /\ Terminated(FrameBody)
          /\ FrameCount = Len(LinesOf(FrameBody))

\* a Read of an absent file: "No such file or directory (os error 2)"
C9_Witness ==
    /\ pc = "drop"
    /\ err = MsgNotFound
    /\ NoWriteFailed
    /\ Framed
    /\ FrameCount = 38

\* C10: a well-formed Exists request is answered with flag 1 iff a file or a
\* directory exists at the resolved path and with flag 0 otherwise; an absent
\* path gives no error response.
C10_ExistsFlag ==
    (/\ pc = "drop"
     /\ CompletePathLine
     /\ req[1] = 0
     /\ ValidUtf8(PathLine))
    => /\ fsops = <<"exists">>
       /\ writes # <<>>
       /\ writes[1].by = "process_request"
       /\ writes[1].data =
             << IF \E k \in DOMAIN fs :
                       k = FsKey(path) /\ fs[k].kind \in {"file", "dir"}
                THEN 1 ELSE 0 >>
       /\ writes[1].ok => (err = <<>> /\ Len(writes) = 1)

\* Exists on the directory rom:/Data/d answers 1
C10_Witness ==
    /\ pc = "drop"
    /\ CompletePathLine
    /\ req[1] = 0
    /\ FsKey(path) = <<NameD>>
    /\ FsKey(path) \in DOMAIN fs
    /\ fs[FsKey(path)].kind = "dir"
    /\ Wire = <<1>>


-----------------------------------------------------------------------------
(* C11..C20 *)

\* the part of the resolved path behind "rom:/Data/"
PathText == SubSeq(path, Len(RootPrefix) + 1, Len(path))

\* C11 as stated: the path is the text of the path line up to the newline and
\* a carriage return before the newline is kept, so that "a\r\n" resolves to
\* another path than "a\n".
C11_TrailingCrKept ==
    (/\ pc = "dispatch"
     /\ CompletePathLine
     /\ Len(PathLine) >= 2
     /\ PathLine[Len(PathLine) - 1] = 13)
    => /\ path # <<>>
       /\ path[Len(path)] = 13
       /\ path # RootPrefix \o SubSeq(PathLine, 1, Len(PathLine) - 2)

\* C11: the path of a request is "rom:/Data/" followed by the text of the path
\* line with the whitespace at both of its ends removed, a carriage return
\* before the newline included, and every backslash turned into a slash.
C11_PathIsTrimmedLine ==
    (pc = "dispatch" /\ CompletePathLine) =>
        /\ IsPrefixOf(RootPrefix, path)
        /\ \E i \in 1..(Len(PathLine) + 1), j \in 0..Len(PathLine) :
              /\ Len(PathText) = j - i + 1
              /\ \A k \in 1..Len(PathText) :
                    PathText[k] = IF PathLine[i + k - 1] = BACKSLASH
                                  THEN SLASH
                                  ELSE PathLine[i + k - 1]
              /\ \A k \in 1..(i - 1) : IsWhitespace(PathLine[k])
              /\ \A k \in (j + 1)..Len(PathLine) : IsWhitespace(PathLine[k])
        /\ PathText # <<>> =>
              /\ ~IsWhitespace(PathText[1])
              /\ ~IsWhitespace(PathText[Len(PathText)])

\* the path line "a\r\n" has been resolved to rom:/Data/a
C11_Witness ==
    /\ pc = "dispatch"
    /\ CompletePathLine
    /\ PathLine = <<97, 13, NL>>
    /\ path = RootPrefix \o <<97>>

\* C12: an operation byte other than 0, 1 and 2 is rejected as soon as it is
\* read: the server does not wait for the path line nor read it, and no
\* "Received request" entry is recorded for the connection.
C12_UnknownRejectedAtOnce ==
    (/\ cur # 0
     /\ status[cur] = "active"
     /\ pc # "read_op"
     /\ Len(req) >= 1
     /\ req[1] \notin {0, 1, 2})
    => /\ pc # "read_path"
       /\ inbuf = Tail(req)
       /\ \A i \in 1..Len(rlog) : rlog[i] # "received"

\* C13: when the connection of a List is closed behind the path line and
\* before a newline-terminated glob line, decoding fails: the answer is an
\* error response and nothing is walked or listed.
C13_TruncatedGlobIsError ==
    (/\ pc = "drop"
     /\ CompletePathLine
     /\ req[1] = 2
     /\ ValidUtf8(req)
     /\ IndexOf(SubSeq(Tail(req), Len(PathLine) + 1, Len(req) - 1), NL) = 0
     /\ eof)
    => /\ fsops = <<>>
       /\ walked = <<>>
       /\ err # <<>>
       /\ WritesBy("process_request") = {}

\* C14: the glob line of a List is read and has no effect.  The walker is
\* called on the resolved path, not on the path joined with the glob line;
\* with every other glob line it is called on the same directory, and the
\* count and the entries of the answer are the regular files beneath the
\* resolved path.
C14_GlobHasNoEffect ==
    (pc = "drop" /\ operation = 2 /\ fsops = <<"list">>) =>
        /\ walked = path
        /\ \A g \in GlobParts :
              WalkRoot(path, path \o <<SLASH>> \o g) = walked
        /\ (err = <<>> /\ NoWriteFailed) =>
              /\ Framed
              /\ FrameCount = Cardinality(FilesBeneath(FsKey(path)))
              /\ LET lines == LinesOf(FrameBody) IN
                    {lines[i] : i \in 1..Len(lines)} = FilesBeneath(FsKey(path))

\* a List of "d" with the glob line "*\n", answered by its two files
C14_Witness ==
    /\ pc = "drop"
    /\ operation = 2
    /\ fsops = <<"list">>
    /\ glob = path \o <<SLASH, 42, NL>>
    /\ FsKey(path) = <<NameD>>
    /\ err = <<>>
    /\ NoWriteFailed
    /\ Framed
    /\ FrameCount = 2

\* the filesystem operation of the Read or List on `connection` fails: the
\* path is no readable file, or a directory met by the walk cannot be read
FsOperationFails ==
    \/ /\ operation = 1
       /\ fsops = <<"read">>
       /\ ~(/\ FsKey(path) \in DOMAIN fs
            /\ fs[FsKey(path)].kind = "file"
            /\ fs[FsKey(path)].readable)
    \/ /\ operation = 2
       /\ fsops = <<"list">>
       /\ ~WalkHasNoIoError(FsKey(path))

\* C15: when the filesystem operation of a Read or a List fails, at any
\* depth of the walk, no byte of a success response is written, the error is
\* recorded before the first byte of the error frame is written, no
\* "Successfully processed" entry is recorded, and the answer is the error
\* frame.
C15_FsFailureIsErrorOnly ==
    FsOperationFails =>
        /\ err # <<>>
        /\ WritesBy("process_request") = {}
        /\ \A i \in 1..Len(rlog) : rlog[i] # "success"
        /\ writes # <<>> => rlog[Len(rlog)] = "error"
        /\ (pc = "drop" /\ NoWriteFailed) =>
              /\ Framed
              /\ FrameStatus = 1
              /\ FrameCount = Len(FrameBody)
              /\ FrameBody = err

\* a List of rom:/Data whose walk fails in d/d, two levels down
C15_Witness ==
    /\ pc = "drop"
    /\ FsOperationFails
    /\ operation = 2
    /\ FsKey(path) = <<>>
    /\ fs[<<NameD>>].readable
    /\ NoWriteFailed
    /\ Len(writes) = 3

\* C16: when accepting a connection fails the error is recorded, nothing is
\* read from or written to any connection, none is bound or closed, and the
\* loop is back at accepting: a connection that waits can be accepted, and
\* the one accepted next is processed from its first byte.
C16_AcceptFailureSkipped ==
    /\ [][(rlog' = <<"incoming", "error">> /\ rlog' # rlog) =>
              /\ pc' = "accept"
              /\ UNCHANGED <<status, backlog, cur, req, inbuf, wq, writes,
                             fsops, err>>]_vars
    /\ [](rlog = <<"incoming", "error">> =>
              /\ pc = "accept"
              /\ writes = <<>>
              /\ \A c \in Conns : status[c] # "active"
              /\ backlog # <<>> => ENABLED Accept)
    /\ [][(rlog = <<"incoming", "error">> /\ cur' # cur) =>
              /\ pc' = "read_op"
              /\ status'[cur'] = "active"
              /\ inbuf' = req'
              /\ rlog' = <<"incoming", "handling">>]_vars

\* an accept has failed after a connection was served, and another waits
C16_Witness ==
    /\ pc = "accept"
    /\ rlog = <<"incoming", "error">>
    /\ cur # 0
    /\ backlog # <<>>

\* the worker waits for bytes of `connection` that have not arrived, and the
\* client has not closed: the operation byte, the newline of the path line,
\* or the newline of the glob line of a List
AwaitsBytes ==
    /\ cur # 0
    /\ ~eof
    /\ \/ pc = "read_op" /\ inbuf = <<>>
       \/ pc = "read_path" /\ IndexOf(inbuf, NL) = 0
       \/ pc = "dispatch" /\ operation = 2 /\ IndexOf(inbuf, NL) = 0

\* C17: there is no timeout.  While the client of the accepted connection
\* neither sends the awaited bytes nor closes, the worker stays where it is:
\* it reads and writes nothing, records nothing, and no other connection is
\* accepted or answered.
C17_NoTimeout ==
    [][AwaitsBytes =>
          /\ AwaitsBytes'
          /\ UNCHANGED <<pc, cur, inbuf, wq, writes, fsops, rlog, err>>
          /\ \A c \in Conns : status'[c] = "active" => c = cur]_vars

\* the worker waits for the newline of a path line while a connection is
\* queued
C17_Witness ==
    /\ AwaitsBytes
    /\ pc = "read_path"
    /\ inbuf # <<>>
    /\ backlog # <<>>

\* C18: the Logger never opens its file later: without a file no log call
\* puts anything into one, with a file the lines are those of the console or
\* none when the writes fail.  Every log call writes to the console, so the
\* record of a connection is complete whatever the state of the file, and a
\* step that logs fails only by the walk of a List.
C18_LogFileStaysAbsent ==
    /\ [][logger' = logger]_vars
    /\ [](~logger.file => flog = <<>>)
    /\ [](flog = <<>> \/ flog = rlog)
    /\ [](pc = "drop" =>
              /\ Len(rlog) >= 3
              /\ rlog[1] = "incoming"
              /\ rlog[2] = "handling"
              /\ rlog[Len(rlog)] = IF err = <<>> THEN "success" ELSE "error")
    /\ [][rlog' # rlog =>
              /\ pc' # "panicked"
              /\ pc' = "failed" =>
                    (operation = 2 /\ ~WalkHasNoIoError(FsKey(path)))]_vars

\* a request was served to its end without a log file
C18_Witness ==
    /\ pc = "drop"
    /\ ~logger.file
    /\ flog = <<>>
    /\ Len(rlog) = 4
    /\ rlog[4] = "success"

\* C19: every entry of a List is the full walked path, rom:/Data/... , with
\* exactly its first two segments removed, so the segments of the requested
\* directory stay in it whatever its depth; no two lines are equal and the
\* count is the number of regular files the walk found.
C19_EntriesRelativeToRoot ==
    (/\ pc = "drop"
     /\ operation = 2
     /\ fsops = <<"list">>
     /\ err = <<>>
     /\ NoWriteFailed)
    => /\ Framed
       /\ LET lines == LinesOf(FrameBody)
              found == {q \in DOMAIN fs : /\ fs[q].kind = "file"
                                          /\ IsPrefixOf(FsKey(walked), q)
                                          /\ q # FsKey(walked)}
              Full(q) == Components(RootPrefix) \o q
          IN /\ \A i \in 1..Len(lines) : \E q \in found :
                   /\ Components(lines[i])
                         = SubSeq(Full(q), 3, Len(Full(q)))
                   /\ Len(Components(lines[i])) = Len(Full(q)) - 2
                   /\ IsPrefixOf(FsKey(walked), Components(lines[i]))
             /\ \A i, j \in 1..Len(lines) : lines[i] = lines[j] => i = j
             /\ Len(lines) = Cardinality(found)
             /\ FrameCount = Cardinality(found)

\* a List of "d", one level below rom:/Data: the entries are d/a and d/d/a
C19_Witness ==
    /\ pc = "drop"
    /\ operation = 2
    /\ fsops = <<"list">>
    /\ err = <<>>
    /\ NoWriteFailed
    /\ FsKey(walked) = <<NameD>>
    /\ Framed
    /\ FrameCount = 2
    /\ \E i \in 1..2 : LinesOf(FrameBody)[i] = <<100, 47, 100, 47, 97>>

\* C20: one request per connection.  At most one filesystem operation and one
\* "Received request" entry belong to a connection; once the answer is being
\* written nothing more is read from the connection, and when the answer is
\* written the connection is closed with the bytes that follow the first
\* request unread.
C20_OneRequestPerConnection ==
    /\ [](Len(fsops) <= 1)
    /\ [](Cardinality({i \in 1..Len(rlog) : rlog[i] = "received"}) <= 1)
    /\ [][(pc \in {"write", "failed", "write_error", "drop"}) =>
              ((inbuf' = inbuf /\ req' = req /\ fsops' = fsops)
                  \/ pc' = "accept")]_vars
    /\ [][pc = "drop" =>
              (pc' = "drop" \/ (pc' = "accept" /\ status'[cur] = "closed"))]_vars

\* Exists "a" was answered and the Read "a" sent behind it is unread
C20_Witness ==
    /\ pc = "drop"
    /\ req = <<0, 97, NL, 1, 97, NL>>
    /\ inbuf = <<1, 97, NL>>
    /\ fsops = <<"exists">>
    /\ NoWriteFailed
    /\ Wire = <<1>>


=============================================================================
